---- MODULE Spec2Model ----
(***************************************************************************)
(* A model of the AI-ERASER redaction pipeline (src/src/App.tsx): the      *)
(* geometry helpers, the IoU de-duplicator, the tiled BlazeFace scan, the  *)
(* processImage stages with their detectors, the clipped blur and the UI   *)
(* handlers that start and disturb a run.                                  *)
(*                                                                         *)
(* Numbers.  Box coordinates are JavaScript doubles; the model draws them  *)
(* from small non-negative integers, on which +, -, *, min and max are     *)
(* exact in doubles.  computeIoU divides two such integers; the model      *)
(* keeps the quotient as the pair num/den and compares by cross            *)
(* multiplication.  For these operands the double comparison               *)
(* "num/den > 0.3" agrees with the exact one: 3/10 itself rounds to the    *)
(* double that the literal 0.3 denotes, and every other quotient of small  *)
(* integers is far from it.                                                *)
(***************************************************************************)
EXTENDS Integers, Sequences, FiniteSets, TLC

VARIABLES
    boxes,      \* deduplicateBoxes: the candidate list handed to it (allBoxes)
    keep,       \* deduplicateBoxes: the list it returned (uniqueBoxes)
    again,      \* the list returned when the de-duplicator is run on `keep`
    dpc,        \* where the de-duplication scenario stands
    blazeModel, \* let blazeModel: TRUE once loaded, FALSE while null
    imgW,       \* detectWithBlazeFaceMultiScale: imgW
    imgH,       \* detectWithBlazeFaceMultiScale: imgH
    spc,        \* detectWithBlazeFaceMultiScale: where the call stands
    tileX,      \* the tile loops' x
    tileY,      \* the tile loops' y
    turn,       \* the parity of the number of tile-loop turns begun so far
    blazeBoxes, \* detectWithBlazeFaceMultiScale: allBoxes
    scanned,    \* the crops drawn to tempCanvas and handed to estimateFaces
    blazeThrew, \* the catch block of detectWithBlazeFaceMultiScale has run
    options,    \* processImage: options (faces, body, licensePlate, sensitiveText)
    cocoModel,  \* let cocoModel: TRUE once loaded
    bodyPixModel, \* let bodyPixModel: TRUE once loaded
    ppc,        \* processImage: where the call stands
    cpc,        \* detectHeadsFromPersons: where the call stands
    cocoBoxes,  \* detectHeadsFromPersons: the list it returns
    threw,      \* the collaborators whose call threw: "coco", "bodyPix", "ocr"
    writes,     \* the writes to the destination canvas, in order
    originalImage, \* App: originalImage, 0 for null, else the number of the image
    pendingLoads,  \* the images whose onload has not fired yet
    dropped,    \* how many files were dropped so far
    isProcessing,  \* App: isProcessing
    timers,     \* the setTimeout callbacks of handleProcess not yet run
    clicks,     \* how many times Apply Blur was activated so far
    runs,       \* the processImage calls in flight, each at an await
    canvas,     \* what canvasRef.current shows: the image drawn, the stages blurred
    downloads,  \* the canvas contents exported by handleDownload
    pix,        \* the pixels of the destination canvas of a small image
    calls,      \* the rectangles applyBlurToRect was called with, in order
    bpc,        \* where the box-based redaction of the small image stands
    text,       \* words.forEach: text, a sequence of character classes
    verdict,    \* words.forEach: the tests that matched, and shouldBlur
    tpc         \* where the classification of the word stands

dedupVars == <<boxes, keep, again, dpc>>

scanVars == <<blazeModel, imgW, imgH, spc, tileX, tileY, turn, blazeBoxes, scanned,
              blazeThrew>>

pipeVars == <<options, cocoModel, bodyPixModel, ppc, cpc, cocoBoxes, threw, writes>>

uiVars == <<originalImage, pendingLoads, dropped, isProcessing, timers, clicks, runs,
            canvas, downloads>>

blurVars == <<pix, calls, bpc>>

textVars == <<text, verdict, tpc>>

vars == <<dedupVars, scanVars, pipeVars, uiVars, blurVars, textVars>>

\* What the actions of one part leave alone
notDedup == <<scanVars, pipeVars, uiVars, blurVars, textVars>>
notScan == <<dedupVars, pipeVars, uiVars, blurVars, textVars>>
notPipe == <<uiVars, blurVars, textVars>>

-----------------------------------------------------------------------------
(* Bounds of the model and constants of the program *)

MaxCoord == 2           \* candidate boxes lie in [0, MaxCoord] x [0, MaxCoord]
IouThreshNum == 3       \* deduplicateBoxes(allBoxes, 0.3): 0.3 = 3/10
IouThreshDen == 10
DefaultFullScore == 90  \* pred.probability?.[0] ?? 0.9, in hundredths
DefaultTileScore == 80  \* pred.probability?.[0] ?? 0.8, in hundredths
PersonMinScore == 35    \* p.score > 0.35, in hundredths
HeadHeightPct == 25     \* headHeight = h * 0.25
HeadWidthPct == 45      \* headWidth = w * 0.45
PadDen == 5             \* padX = box.width * 0.2, a fifth of the width

\* The `source` tags the three detectors put on their boxes, in the order in
\* which processImage concatenates their results.
Sources == <<"blaze-full", "blaze-tile", "coco-head">>

MaxBoxes == 3           \* at most MaxBoxes candidates reach the de-duplicator
MaxFaces == 1           \* at most MaxFaces faces are found by one tiled scan
TilingAbove == 400      \* if (imgW > 400 || imgH > 400)
MaxTileSize == 640      \* Math.min(imgW, imgH, 640)
MinCrop == 100          \* if (cropW < 100 || cropH < 100) continue

Scores == {DefaultTileScore, DefaultFullScore}

\* interface FaceBox, without the source tag
Geometry ==
    { g \in [x : 0..MaxCoord, y : 0..MaxCoord, width : 0..MaxCoord, height : 0..MaxCoord] :
        g.x + g.width <= MaxCoord /\ g.y + g.height <= MaxCoord }

FaceBox(g, src, sc) ==
    [x |-> g.x, y |-> g.y, width |-> g.width, height |-> g.height,
     source |-> src, score |-> sc]

-----------------------------------------------------------------------------
(* Geometry helpers *)

Max(a, b) == IF a >= b THEN a ELSE b
Min(a, b) == IF a <= b THEN a ELSE b

\* The area of the axis-aligned intersection, as computeIoU computes it.
Intersection(a, b) ==
    LET x1 == Max(a.x, b.x)
        y1 == Max(a.y, b.y)
        x2 == Min(a.x + a.width, b.x + b.width)
        y2 == Min(a.y + a.height, b.y + b.height)
    IN  Max(0, x2 - x1) * Max(0, y2 - y1)

\* A mutant of computeIoU: the union is taken as areaA + areaB, the
\* intersection counted twice.
computeIoUNoSubtract(a, b) ==
    LET intersection == Intersection(a, b)
    IN  IF intersection = 0 THEN [num |-> 0, den |-> 1]
        ELSE [num |-> intersection,
              den |-> a.width * a.height + b.width * b.height]

\* computeIoU(a, b): the quotient num/den.
computeIoU(a, b) ==
    LET intersection == Intersection(a, b)
        areaA == a.width * a.height
        areaB == b.width * b.height
    IN  IF intersection = 0 THEN [num |-> 0, den |-> 1]
        ELSE [num |-> intersection, den |-> areaA + areaB - intersection]

\* q > num/den, for quotients with positive denominators
Exceeds(q, num, den) == q.num * den > num * q.den

-----------------------------------------------------------------------------
(* The de-duplicator *)

\* [...boxes].sort((a, b) => b.score - a.score): a stable sort, by insertion.
RECURSIVE InsertByScore(_, _)
InsertByScore(b, s) ==
    IF s = <<>> THEN <<b>>
    ELSE IF Head(s).score >= b.score THEN <<Head(s)>> \o InsertByScore(b, Tail(s))
    ELSE <<b>> \o s

RECURSIVE SortByScore(_)
SortByScore(s) ==
    IF s = <<>> THEN <<>>
    ELSE InsertByScore(s[Len(s)], SortByScore(SubSeq(s, 1, Len(s) - 1)))

\* computeIoU(box, kept) > iouThreshold
IsDuplicate(box, kept, num, den) == Exceeds(computeIoU(box, kept), num, den)

\* A mutant of FirstDuplicate: the `break` sits outside the `if`, so only the
\* first kept box is ever compared.
FirstDuplicateBreakEarly(box, kept, i, num, den) ==
    IF i > Len(kept) THEN 0
    ELSE IF IsDuplicate(box, kept[i], num, den) THEN i
    ELSE 0

\* The inner loop: the index of the first kept box the candidate duplicates,
\* 0 when there is none.
RECURSIVE FirstDuplicate(_, _, _, _, _)
FirstDuplicate(box, kept, i, num, den) ==
    IF i > Len(kept) THEN 0
    ELSE IF IsDuplicate(box, kept[i], num, den) THEN i
    ELSE FirstDuplicate(box, kept, i + 1, num, den)

\* A mutant of Expand: the kept box is replaced by the absorbed candidate.
ExpandReplace(kept, box) ==
    [kept EXCEPT !.x = box.x, !.y = box.y,
                 !.width = box.width, !.height = box.height]

\* "Expand the kept box to encompass both": bounds change, source and score stay.
Expand(kept, box) ==
    LET x1 == Min(kept.x, box.x)
        y1 == Min(kept.y, box.y)
        x2 == Max(kept.x + kept.width, box.x + box.width)
        y2 == Max(kept.y + kept.height, box.y + box.height)
    IN  [kept EXCEPT !.x = x1, !.y = y1, !.width = x2 - x1, !.height = y2 - y1]

\* The outer loop over the sorted candidates.
RECURSIVE DedupLoop(_, _, _, _)
DedupLoop(sorted, kept, num, den) ==
    IF sorted = <<>> THEN kept
    ELSE LET box == Head(sorted)
             j == FirstDuplicate(box, kept, 1, num, den)
         IN  IF j = 0
             THEN DedupLoop(Tail(sorted), Append(kept, box), num, den)
             ELSE DedupLoop(Tail(sorted),
                            [kept EXCEPT ![j] = Expand(kept[j], box)], num, den)

deduplicateBoxes(bs, num, den) ==
    IF Len(bs) = 0 THEN <<>>
    ELSE DedupLoop(SortByScore(bs), <<>>, num, den)

-----------------------------------------------------------------------------
(* The de-duplication scenario: detectors report candidates, the pipeline  *)
(* de-duplicates them, and the result is de-duplicated once more.          *)

\* let shouldBlur = false, before any test of the word
NoVerdict == [email |-> FALSE, phone |-> FALSE, plate |-> FALSE, shouldBlur |-> FALSE]

\* No de-duplication scenario is running.
DedupIdle ==
    /\ boxes = <<>>
    /\ keep = <<>>
    /\ again = <<>>
    /\ dpc = "idle"

\* No tiled scan is running.
ScanIdle ==
    /\ blazeModel = TRUE
    /\ imgW = 1
    /\ imgH = 1
    /\ spc = "idle"
    /\ tileX = 0
    /\ tileY = 0
    /\ turn = 0
    /\ blazeBoxes = <<>>
    /\ scanned = {}
    /\ blazeThrew = FALSE

\* No processImage call is running.
PipeIdle ==
    /\ options = [faces |-> TRUE, body |-> FALSE, licensePlate |-> FALSE,
                  sensitiveText |-> FALSE]
    /\ cocoModel = TRUE
    /\ bodyPixModel = TRUE
    /\ ppc = "idle"
    /\ cpc = "idle"
    /\ cocoBoxes = <<>>
    /\ threw = {}
    /\ writes = <<>>

\* The page as mounted: no image, nothing scheduled, nothing exported.
UiIdle ==
    /\ originalImage = 0
    /\ pendingLoads = {}
    /\ dropped = 0
    /\ isProcessing = FALSE
    /\ timers = <<>>
    /\ clicks = 0
    /\ runs = <<>>
    /\ canvas = [image |-> 0, stages |-> {}]
    /\ downloads = <<>>

\* No pixel canvas is in use.
BlurIdle ==
    /\ pix = <<>>
    /\ calls = <<>>
    /\ bpc = "idle"

\* No word is being classified.
TextIdle ==
    /\ text = <<>>
    /\ verdict = NoVerdict
    /\ tpc = "idle"

DedupInit ==
    /\ boxes = <<>>
    /\ keep = <<>>
    /\ again = <<>>
    /\ dpc = "collect"
    /\ ScanIdle
    /\ PipeIdle
    /\ UiIdle
    /\ BlurIdle
    /\ TextIdle

\* A detector reports one candidate; it is appended to allBoxes.
Detect ==
    /\ dpc = "collect"
    /\ Len(boxes) < MaxBoxes
    /\ \E g \in Geometry, sc \in Scores :
          boxes' = Append(boxes, FaceBox(g, Sources[(Len(boxes) % Len(Sources)) + 1], sc))
    /\ UNCHANGED <<keep, again, dpc>>
    /\ UNCHANGED notDedup

\* const uniqueBoxes = deduplicateBoxes(allBoxes, 0.3)
Dedup ==
    /\ dpc = "collect"
    /\ keep' = deduplicateBoxes(boxes, IouThreshNum, IouThreshDen)
    /\ dpc' = "deduped"
    /\ UNCHANGED <<boxes, again>>
    /\ UNCHANGED notDedup

\* deduplicateBoxes applied to its own output
Rerun ==
    /\ dpc = "deduped"
    /\ again' = deduplicateBoxes(keep, IouThreshNum, IouThreshDen)
    /\ dpc' = "rerun"
    /\ UNCHANGED <<boxes, keep>>
    /\ UNCHANGED notDedup

DedupNext == Detect \/ Dedup \/ Rerun

SpecDedup == DedupInit /\ [][DedupNext]_vars

-----------------------------------------------------------------------------
(* Properties of the geometry helpers and the de-duplicator *)

Bounds(b) == [x |-> b.x, y |-> b.y, width |-> b.width, height |-> b.height]

\* b lies within k
Contains(k, b) ==
    /\ k.x <= b.x
    /\ k.y <= b.y
    /\ b.x + b.width <= k.x + k.width
    /\ b.y + b.height <= k.y + k.height

PairwiseDisjoint(s) ==
    \A i, j \in 1..Len(s) : i < j => Intersection(s[i], s[j]) = 0

PairwiseWithinThreshold(s) ==
    \A i, j \in 1..Len(s) :
        i # j => ~Exceeds(computeIoU(s[i], s[j]), IouThreshNum, IouThreshDen)

MutuallyOverlapping(s) ==
    \A i, j \in 1..Len(s) :
        i # j => Exceeds(computeIoU(s[i], s[j]), IouThreshNum, IouThreshDen)

\* The bounding box of a non-empty list of boxes
RECURSIVE Span(_)
Span(s) ==
    IF Len(s) = 1 THEN Bounds(s[1])
    ELSE Bounds(Expand(Span(SubSeq(s, 1, Len(s) - 1)), s[Len(s)]))

Regions(s) ==
    { [x |-> s[i].x, y |-> s[i].y, width |-> s[i].width, height |-> s[i].height,
       score |-> s[i].score] : i \in 1..Len(s) }

Deduped == dpc \in {"deduped", "rerun"}

C2_Idempotent == dpc = "rerun" => Regions(again) = Regions(keep)

\* Each kept region of the run over the first n sorted candidates lies within
\* the kept region at the same position of the run over the first n + 1.
NeverShrinks(sorted) ==
    \A n \in 0..(Len(sorted) - 1) :
        LET before == DedupLoop(SubSeq(sorted, 1, n), <<>>, IouThreshNum, IouThreshDen)
            after == DedupLoop(SubSeq(sorted, 1, n + 1), <<>>, IouThreshNum, IouThreshDen)
        IN  /\ Len(before) <= Len(after)
            /\ \A k \in 1..Len(before) : Contains(after[k], before[k])

\* C3: every candidate lies within at least one returned region, and
\* absorbing a candidate never shrinks the bounds of the kept region.
C3_Coverage ==
    Deduped =>
        /\ \A i \in 1..Len(boxes) : \E k \in 1..Len(keep) : Contains(keep[k], boxes[i])
        /\ NeverShrinks(SortByScore(boxes))

\* A candidate was absorbed and the region that absorbed it grew beyond every
\* single candidate.
C3_Witness ==
    /\ dpc = "deduped"
    /\ Len(keep) < Len(boxes)
    /\ \E k \in 1..Len(keep) :
          \A i \in 1..Len(boxes) : Bounds(keep[k]) # Bounds(boxes[i])

\* C4 as stated: mutually overlapping candidates collapse to the one region
\* spanning them all; no candidates give no regions; one candidate is
\* returned with its bounds and score.
C4_Collapse ==
    Deduped =>
        /\ Len(boxes) = 0 => keep = <<>>
        /\ Len(boxes) = 1 => keep = boxes
        /\ (Len(boxes) >= 1 /\ MutuallyOverlapping(boxes)) =>
              (Len(keep) = 1 /\ Bounds(keep[1]) = Span(boxes))

One(q) == q.num = q.den
Zero(q) == q.num = 0

InPlay == { boxes[i] : i \in 1..Len(boxes) } \cup { keep[i] : i \in 1..Len(keep) }

\* C5 as stated, its first part: computeIoU(a, a) = 1 for every region,
\* zero-area regions included.
C5_SelfIoUOne == Deduped => \A a \in InPlay : One(computeIoU(a, a))

\* C5, amended: computeIoU(a, a) is 1 for every region of positive area and 0
\* for a zero-area region; computeIoU is symmetric, and it is 0 exactly when
\* the two regions have no intersection of positive area.
C5_IoU ==
    dpc = "deduped" =>
        \A a, b \in InPlay :
            /\ (a.width > 0 /\ a.height > 0) => One(computeIoU(a, a))
            /\ (a.width = 0 \/ a.height = 0) => Zero(computeIoU(a, a))
            /\ computeIoU(a, b) = computeIoU(b, a)
            /\ Zero(computeIoU(a, b)) <=> (Intersection(a, b) = 0)

\* The de-duplicator has compared a zero-area candidate, a candidate of
\* positive area, and two distinct candidates that overlap.
C5_Witness ==
    /\ dpc = "deduped"
    /\ \E a, b, c \in InPlay :
          /\ a.width = 0
          /\ b.width > 0 /\ b.height > 0
          /\ c # b /\ Intersection(b, c) > 0

-----------------------------------------------------------------------------
(* detectWithBlazeFaceMultiScale: the full-image pass and the tile loops.  *)
(* One action per call of the detector and per turn of the loops.  The     *)
(* detector is an opaque collaborator: a call throws, finds nothing, or    *)
(* finds one face, at LocalFace in the coordinates of what it was given.   *)

\* The image sizes the scan is run on: below and above the tiling limit, and
\* sides below, at and above the 100 px skip rule and the 640 px tile limit.
Dims == {1, 50, 100, 150, 401, 549, 700, 1300}

\* One prediction of blazeModel.estimateFaces, tile-local.
LocalFace == [topLeft |-> <<10, 10>>, bottomRight |-> <<20, 20>>]

\* What one estimateFaces call can return; "throw" stands for a rejection.
Outcomes == {"throw", "none", "face"}

tileSize == Min(imgW, Min(imgH, MaxTileSize))

\* Math.floor(tileSize * 0.5)
stepSize == tileSize \div 2

cropW == Min(tileSize, imgW - tileX)
cropH == Min(tileSize, imgH - tileY)

\* The FaceBox pushed for a prediction found in a crop placed at (ox, oy).
Remap(pred, ox, oy, src, sc) ==
    [x |-> pred.topLeft[1] + ox,
     y |-> pred.topLeft[2] + oy,
     width |-> pred.bottomRight[1] - pred.topLeft[1],
     height |-> pred.bottomRight[2] - pred.topLeft[2],
     source |-> src, score |-> sc]

\* The detector's answers the model lets through: a face only while fewer
\* than MaxFaces were found.
Allowed(o) == o = "face" => Len(blazeBoxes) < MaxFaces

\* if (!blazeModel) return [];
ScanNoModel ==
    /\ spc = "start"
    /\ ~blazeModel
    /\ spc' = "done"
    /\ UNCHANGED <<blazeModel, imgW, imgH, tileX, tileY, turn, blazeBoxes, scanned, blazeThrew>>
    /\ UNCHANGED notScan

\* Pass 1: await blazeModel.estimateFaces(img, false), then the test that
\* opens pass 2.
ScanFull ==
    /\ spc = "start"
    /\ blazeModel
    /\ \E o \in Outcomes :
          /\ Allowed(o)
          /\ IF o = "throw"
             THEN /\ blazeThrew' = TRUE
                  /\ spc' = "done"
                  /\ UNCHANGED blazeBoxes
             ELSE /\ blazeBoxes' =
                        IF o = "face"
                        THEN Append(blazeBoxes,
                                    Remap(LocalFace, 0, 0, "blaze-full", DefaultFullScore))
                        ELSE blazeBoxes
                  /\ spc' = IF imgW > TilingAbove \/ imgH > TilingAbove
                            THEN "tiles" ELSE "done"
                  /\ UNCHANGED blazeThrew
    /\ UNCHANGED <<blazeModel, imgW, imgH, tileX, tileY, turn, scanned>>
    /\ UNCHANGED notScan

\* if (cropW < 100 || cropH < 100) continue;
SkipTile == cropW < MinCrop \/ cropH < MinCrop

\* One turn of the inner loop on a crop that is skipped.
TileSkip ==
    /\ spc = "tiles"
    /\ tileY < imgH
    /\ tileX < imgW
    /\ SkipTile
    /\ tileX' = tileX + stepSize
    /\ turn' = 1 - turn
    /\ UNCHANGED <<blazeModel, imgW, imgH, spc, tileY, blazeBoxes, scanned, blazeThrew>>
    /\ UNCHANGED notScan

\* One turn of the inner loop on a crop that is drawn and handed to the
\* detector: await blazeModel.estimateFaces(tempCanvas, false).
TileDetect ==
    /\ spc = "tiles"
    /\ tileY < imgH
    /\ tileX < imgW
    /\ ~SkipTile
    /\ scanned' = scanned \cup
                    {[x |-> tileX, y |-> tileY, width |-> cropW, height |-> cropH]}
    /\ turn' = 1 - turn
    /\ \E o \in Outcomes :
          /\ Allowed(o)
          /\ IF o = "throw"
             THEN /\ blazeThrew' = TRUE
                  /\ spc' = "done"
                  /\ UNCHANGED <<blazeBoxes, tileX>>
             ELSE /\ blazeBoxes' =
                        IF o = "face"
                        THEN Append(blazeBoxes,
                                    Remap(LocalFace, tileX, tileY, "blaze-tile", DefaultTileScore))
                        ELSE blazeBoxes
                  /\ tileX' = tileX + stepSize
                  /\ UNCHANGED <<spc, blazeThrew>>
    /\ UNCHANGED <<blazeModel, imgW, imgH, tileY>>
    /\ UNCHANGED notScan

\* The inner loop ends (x >= imgW): y += stepSize, x = 0.
TileRowEnd ==
    /\ spc = "tiles"
    /\ tileY < imgH
    /\ tileX >= imgW
    /\ tileY' = tileY + stepSize
    /\ tileX' = 0
    /\ UNCHANGED <<blazeModel, imgW, imgH, spc, turn, blazeBoxes, scanned, blazeThrew>>
    /\ UNCHANGED notScan

\* The outer loop ends (y >= imgH): return allBoxes.
TileLoopEnd ==
    /\ spc = "tiles"
    /\ tileY >= imgH
    /\ spc' = "done"
    /\ UNCHANGED <<blazeModel, imgW, imgH, tileX, tileY, turn, blazeBoxes, scanned, blazeThrew>>
    /\ UNCHANGED notScan

\* The scan called on an image of any of the sizes, the model loaded or not.
ScanInit ==
    /\ DedupIdle
    /\ PipeIdle
    /\ UiIdle
    /\ BlurIdle
    /\ TextIdle
    /\ blazeModel \in BOOLEAN
    /\ imgW \in Dims
    /\ imgH \in Dims
    /\ spc = "start"
    /\ tileX = 0
    /\ tileY = 0
    /\ turn = 0
    /\ blazeBoxes = <<>>
    /\ scanned = {}
    /\ blazeThrew = FALSE

ScanNext == ScanNoModel \/ ScanFull \/ TileSkip \/ TileDetect \/ TileRowEnd \/ TileLoopEnd

SpecScan == ScanInit /\ [][ScanNext]_vars

\* The scan as scheduled: the loops run on, and every awaited call of the
\* detector settles, so a step that can be taken is taken.
SpecScanFair == ScanInit /\ [][ScanNext]_vars /\ WF_vars(ScanNext)

\* The regions the coverage of the tiles is probed with: of the largest size
\* below the step, one pixel wide or high, or one pixel square, placed on and
\* next to the tile grid and flush with the far sides of the image.
ProbeSizes == {1, stepSize - 1}

ProbeAt(len, size) ==
    { p \in 0..(len - size) :
        p = len - size \/ p % stepSize \in {0, 1, stepSize - 1} }

ProbeRegions ==
    UNION { { [x |-> px, y |-> py, width |-> w, height |-> h] :
                px \in ProbeAt(imgW, w), py \in ProbeAt(imgH, h) } :
            <<w, h>> \in ProbeSizes \X ProbeSizes }

\* C6 as stated: when the tiling pass has run to its end, every region inside
\* the image that is narrower and lower than the step lies within a crop that
\* was handed to the detector.
C6_TilingCoverage ==
    (spc = "done" /\ blazeModel /\ ~blazeThrew
        /\ (imgW > TilingAbove \/ imgH > TilingAbove) /\ stepSize >= 1)
    => \A r \in ProbeRegions : \E t \in scanned : Contains(t, r)

\* C14 as stated: on an image of any size W >= 1, H >= 1, with every detector
\* call returning, detectWithBlazeFaceMultiScale comes to its end.
C14_Terminates == <>(spc = "done")

-----------------------------------------------------------------------------
(* The text rules of the text/plate stage.  A text is a sequence of        *)
(* character classes: "U" an upper-case letter, "L" a lower-case letter,   *)
(* "D" a digit, "@", ".", "-", " " for white space, "_" any other          *)
(* character.                                                              *)

PlateMinLen == 4        \* /^[A-Z0-9]{4,9}$/
PlateMaxLen == 9

NonSpace(c) == c # " "

\* t[from], ..., t[from + n - 1] exist and are digits
Digits(t, from, n) ==
    /\ from + n - 1 <= Len(t)
    /\ \A k \in from..(from + n - 1) : t[k] = "D"

\* /\S+@\S+\.\S+/.test(text)
EmailLike(t) ==
    \E i \in 2..Len(t), m \in 1..(Len(t) - 1) :
        /\ t[i] = "@"
        /\ NonSpace(t[i - 1])
        /\ m >= i + 2
        /\ t[m] = "."
        /\ NonSpace(t[m + 1])
        /\ \A k \in (i + 1)..(m - 1) : NonSpace(t[k])

\* /\d{3}[-.\s]?\d{4}/.test(text)
PhoneLike(t) ==
    \E st \in 1..Len(t) :
        /\ Digits(t, st, 3)
        /\ \/ Digits(t, st + 3, 4)
           \/ /\ st + 3 <= Len(t)
              /\ t[st + 3] \in {"-", ".", " "}
              /\ Digits(t, st + 4, 4)

\* text.toUpperCase()
toUpperCase(t) == [k \in 1..Len(t) |-> IF t[k] = "L" THEN "U" ELSE t[k]]

\* /^[A-Z0-9]{4,9}$/.test(text.toUpperCase())
PlateLike(t) ==
    LET u == toUpperCase(t)
    IN  /\ Len(u) >= PlateMinLen
        /\ Len(u) <= PlateMaxLen
        /\ \A k \in 1..Len(u) : u[k] \in {"U", "D"}

\* let shouldBlur, as the body of words.forEach leaves it
shouldBlur(t, opts) ==
    \/ opts.sensitiveText /\ (EmailLike(t) \/ PhoneLike(t))
    \/ opts.licensePlate /\ PlateLike(t)

-----------------------------------------------------------------------------
(* One turn of words.forEach on its own: Tesseract reports a text, the     *)
(* tests enabled by the options run on its text.                           *)

FreeLen == 4            \* every text up to this length is tried
MaxTextLen == 10        \* longer texts: one or two classes, then a run

Chars == {"U", "L", "D", "-"}

\* Every text over Chars of length n
RECURSIVE TextsOfLen(_)
TextsOfLen(n) ==
    IF n = 0 THEN {<<>>}
    ELSE { Append(t, c) : t \in TextsOfLen(n - 1), c \in Chars }

\* c repeated n times
Run(c, n) == [k \in 1..n |-> c]

\* The texts Tesseract can report: "hello", "AB1234CD", "555-1234",
\* "john@example.com", every short text, and long texts around the length
\* limits of the plate rule.
Texts ==
    { <<"L", "L", "L", "L", "L">>,
      <<"U", "U", "D", "D", "D", "D", "U", "U">>,
      <<"D", "D", "D", "-", "D", "D", "D", "D">>,
      <<"L", "L", "L", "L", "@", "L", "L", "L", "L", "L", "L", "L", ".", "L", "L", "L">> }
    \cup UNION { TextsOfLen(n) : n \in 0..FreeLen }
    \cup { Run(a, i) \o Run(b, n - i) :
             a \in Chars, b \in Chars, i \in 0..2, n \in (FreeLen + 1)..MaxTextLen }

\* The tests of the loop body that matched, and shouldBlur after them.
Classify(t, opts) ==
    [email |-> opts.sensitiveText /\ EmailLike(t),
     phone |-> opts.sensitiveText /\ PhoneLike(t),
     plate |-> opts.licensePlate /\ PlateLike(t),
     shouldBlur |-> shouldBlur(t, opts)]

\* const text = word.text, for a word of data.words
Recognize ==
    /\ tpc = "ocr"
    /\ \E t \in Texts : text' = t
    /\ tpc' = "word"
    /\ UNCHANGED verdict
    /\ UNCHANGED <<dedupVars, scanVars, pipeVars, uiVars, blurVars>>

\* The tests on text, up to "if (shouldBlur) applyBlurToRect(...)".
TestWord ==
    /\ tpc = "word"
    /\ verdict' = Classify(text, options)
    /\ tpc' = "tested"
    /\ UNCHANGED text
    /\ UNCHANGED <<dedupVars, scanVars, pipeVars, uiVars, blurVars>>

\* The text stage entered with any options that enable it.
TextInit ==
    /\ DedupIdle
    /\ ScanIdle
    /\ UiIdle
    /\ BlurIdle
    /\ \E f, b, lp, st \in BOOLEAN :
          /\ lp \/ st
          /\ options = [faces |-> f, body |-> b, licensePlate |-> lp,
                        sensitiveText |-> st]
    /\ cocoModel = TRUE
    /\ bodyPixModel = TRUE
    /\ ppc = "idle"
    /\ cpc = "idle"
    /\ cocoBoxes = <<>>
    /\ threw = {}
    /\ writes = <<>>
    /\ text = <<>>
    /\ verdict = NoVerdict
    /\ tpc = "ocr"

TextNext == Recognize \/ TestWord

SpecText == TextInit /\ [][TextNext]_vars

\* An upper-case alphanumeric string of length 4 to 9, no separators
UpperAlnum(t) ==
    /\ Len(t) >= PlateMinLen
    /\ Len(t) <= PlateMaxLen
    /\ \A k \in 1..Len(t) : t[k] \in {"U", "D"}

Hello == <<"L", "L", "L", "L", "L">>

\* C11 as stated: with the plate option on, a word is classified plate-like
\* and blurred exactly when its text is an upper-case alphanumeric string of
\* length 4 to 9; "hello" matches no test under any options; "AB1234CD"
\* matches the plate test.
C11_PlateClassification ==
    tpc = "tested" =>
        /\ options.licensePlate => (verdict.plate <=> UpperAlnum(text))
        /\ text = Hello => ~verdict.shouldBlur
        /\ (options.licensePlate /\ text = <<"U", "U", "D", "D", "D", "D", "U", "U">>)
              => verdict.plate

-----------------------------------------------------------------------------
(* processImage: one call, with its detectors.  Rectangles handed to       *)
(* applyBlurToRect are kept in fifths of a pixel, the unit in which the    *)
(* 20% padding of a box with integer bounds is exact.                      *)

\* The rectangle of the face blur: the box padded by a fifth on every side.
FaceRect(box) ==
    [x |-> PadDen * box.x - box.width,
     y |-> PadDen * box.y - box.height,
     width |-> (PadDen + 2) * box.width,
     height |-> (PadDen + 2) * box.height]

\* The rectangle of a word's blur: its bbox, no padding.
WordRect(word) ==
    [x |-> PadDen * word.bbox.x0,
     y |-> PadDen * word.bbox.y0,
     width |-> PadDen * (word.bbox.x1 - word.bbox.x0),
     height |-> PadDen * (word.bbox.y1 - word.bbox.y0)]

WholeCanvas == [x |-> 0, y |-> 0, width |-> PadDen * imgW, height |-> PadDen * imgH]

\* A mutant of CanvasRead: the blur is taken from the canvas as first drawn.
CanvasReadFirst(ws) == 1

\* What a draw on the destination canvas reads: 0 for the image, else the
\* canvas as the first n writes left it.
\* ctx.drawImage(canvas, 0, 0): the canvas as it is when the draw is made.
CanvasRead(ws) == Len(ws)

\* The canvas writes after applyBlurToRect was called on each rectangle in
\* turn: a call with w <= 0 or h <= 0 returns before it touches the canvas.
RECURSIVE BlurWrites(_, _, _)
BlurWrites(ws, rects, stage) ==
    IF rects = <<>> THEN ws
    ELSE BlurWrites(IF Head(rects).width <= 0 \/ Head(rects).height <= 0
                    THEN ws
                    ELSE Append(ws, [stage |-> stage, rect |-> Head(rects),
                                     read |-> CanvasRead(ws)]),
                    Tail(rects), stage)

\* What cocoModel.detect can resolve to, besides throwing: no prediction, or
\* one, a person or not, above or below the score limit.
Predictions ==
    { [class |-> c, score |-> sc, bbox |-> <<100, 0, 200, 120>>] :
        c \in {"person", "dog"}, sc \in {30, 60} }

\* The texts Tesseract can report: "hello", "AB1234CD", "555-1234",
\* "john@example.com".
SampleTexts ==
    { <<"L", "L", "L", "L", "L">>,
      <<"U", "U", "D", "D", "D", "D", "U", "U">>,
      <<"D", "D", "D", "-", "D", "D", "D", "D">>,
      <<"L", "L", "L", "L", "@", "L", "L", "L", "L", "L", "L", "L", ".", "L", "L", "L">> }

SampleWords ==
    { [text |-> t, bbox |-> [x0 |-> 10, y0 |-> 40, x1 |-> 60, y1 |-> 50]] :
        t \in SampleTexts }

\* .filter(p => p.class === 'person' && p.score > 0.35).map(...)
HeadBox(p) ==
    LET px == p.bbox[1]
        py == p.bbox[2]
        w == p.bbox[3]
        h == p.bbox[4]
        headHeight == (h * HeadHeightPct) \div 100
        headWidth == (w * HeadWidthPct) \div 100
        headX == px + (w - headWidth) \div 2
    IN  [x |-> headX, y |-> py, width |-> headWidth, height |-> headHeight,
         source |-> "coco-head", score |-> p.score]

RECURSIVE HeadsFromPersons(_)
HeadsFromPersons(preds) ==
    IF preds = <<>> THEN <<>>
    ELSE (IF Head(preds).class = "person" /\ Head(preds).score > PersonMinScore
          THEN <<HeadBox(Head(preds))>> ELSE <<>>)
         \o HeadsFromPersons(Tail(preds))

\* The synchronous head of processImage: size the canvas, draw the image.
ProcStart ==
    /\ ppc = "start"
    /\ writes' = Append(writes, [stage |-> "draw", rect |-> WholeCanvas, read |-> 0])
    /\ ppc' = "body"
    /\ UNCHANGED <<options, cocoModel, bodyPixModel, cpc, cocoBoxes, threw>>
    /\ UNCHANGED <<dedupVars, scanVars, notPipe>>

\* if (options.body && bodyPixModel) is false
BodySkip ==
    /\ ppc = "body"
    /\ ~(options.body /\ bodyPixModel)
    /\ ppc' = "faces"
    /\ UNCHANGED <<options, cocoModel, bodyPixModel, cpc, cocoBoxes, threw, writes>>
    /\ UNCHANGED <<dedupVars, scanVars, notPipe>>

\* A. await bodyPixModel.segmentPerson(...), then the masked blurred copy of
\* the image (bCtx.drawImage(img, 0, 0)) is drawn on the canvas; a throw is
\* caught and logged.
BodySegment ==
    /\ ppc = "body"
    /\ options.body /\ bodyPixModel
    /\ \E o \in {"throw", "mask"} :
          IF o = "throw"
          THEN threw' = threw \cup {"bodyPix"} /\ UNCHANGED writes
          ELSE writes' = Append(writes, [stage |-> "body", rect |-> WholeCanvas,
                                         read |-> 0])
               /\ UNCHANGED threw
    /\ ppc' = "faces"
    /\ UNCHANGED <<options, cocoModel, bodyPixModel, cpc, cocoBoxes>>
    /\ UNCHANGED <<dedupVars, scanVars, notPipe>>

\* if (options.faces) is false
FacesSkip ==
    /\ ppc = "faces"
    /\ ~options.faces
    /\ ppc' = "text"
    /\ UNCHANGED <<options, cocoModel, bodyPixModel, cpc, cocoBoxes, threw, writes>>
    /\ UNCHANGED <<dedupVars, scanVars, notPipe>>

\* B. Promise.all([detectWithBlazeFaceMultiScale(img), detectHeadsFromPersons(img)]):
\* both calls are made, then processImage awaits the pair.
FacesStart ==
    /\ ppc = "faces"
    /\ options.faces
    /\ spc' = "start"
    /\ cpc' = "start"
    /\ ppc' = "join"
    /\ UNCHANGED <<options, cocoModel, bodyPixModel, cocoBoxes, threw, writes>>
    /\ UNCHANGED <<blazeModel, imgW, imgH, tileX, tileY, turn, blazeBoxes, scanned, blazeThrew>>
    /\ UNCHANGED <<dedupVars, notPipe>>

\* detectHeadsFromPersons: if (!cocoModel) return [];
CocoNoModel ==
    /\ cpc = "start"
    /\ ~cocoModel
    /\ cpc' = "done"
    /\ UNCHANGED <<options, cocoModel, bodyPixModel, ppc, cocoBoxes, threw, writes>>
    /\ UNCHANGED <<dedupVars, scanVars, notPipe>>

\* detectHeadsFromPersons: await cocoModel.detect(img); a throw returns [].
CocoDetect ==
    /\ cpc = "start"
    /\ cocoModel
    /\ \/ /\ threw' = threw \cup {"coco"}
          /\ cocoBoxes' = <<>>
       \/ /\ \E preds \in {<<>>} \cup { <<p>> : p \in Predictions } :
                cocoBoxes' = HeadsFromPersons(preds)
          /\ UNCHANGED threw
    /\ cpc' = "done"
    /\ UNCHANGED <<options, cocoModel, bodyPixModel, ppc, writes>>
    /\ UNCHANGED <<dedupVars, scanVars, notPipe>>

\* const allBoxes = [...blazeBoxes, ...cocoHeadBoxes]
FaceCandidates == blazeBoxes \o cocoBoxes

\* A mutant of FacesJoin: the face stage goes on as soon as the tiled scan
\* has returned, with what the head estimator has so far.
FacesJoinEarly ==
    /\ ppc = "join"
    /\ spc = "done"
    /\ boxes' = FaceCandidates
    /\ keep' = deduplicateBoxes(boxes', IouThreshNum, IouThreshDen)
    /\ writes' = BlurWrites(writes, [i \in 1..Len(keep') |-> FaceRect(keep'[i])], "faces")
    /\ ppc' = "text"
    /\ UNCHANGED <<options, cocoModel, bodyPixModel, cpc, cocoBoxes, threw>>
    /\ UNCHANGED <<again, dpc>>
    /\ UNCHANGED <<scanVars, notPipe>>

\* Both detectors have returned: concatenate, de-duplicate, blur each unique
\* box with its padding.
FacesJoin ==
    /\ ppc = "join"
    /\ spc = "done"
    /\ cpc = "done"
    /\ boxes' = FaceCandidates
    /\ keep' = deduplicateBoxes(boxes', IouThreshNum, IouThreshDen)
    /\ writes' = BlurWrites(writes, [i \in 1..Len(keep') |-> FaceRect(keep'[i])], "faces")
    /\ ppc' = "text"
    /\ UNCHANGED <<options, cocoModel, bodyPixModel, cpc, cocoBoxes, threw>>
    /\ UNCHANGED <<again, dpc>>
    /\ UNCHANGED <<scanVars, notPipe>>

\* if (options.licensePlate || options.sensitiveText) is false
TextSkip ==
    /\ ppc = "text"
    /\ ~(options.licensePlate \/ options.sensitiveText)
    /\ ppc' = "done"
    /\ UNCHANGED <<options, cocoModel, bodyPixModel, cpc, cocoBoxes, threw, writes>>
    /\ UNCHANGED <<dedupVars, scanVars, notPipe>>

\* The rectangles blurred by words.forEach, in order.
RECURSIVE WordRects(_, _)
WordRects(words, opts) ==
    IF words = <<>> THEN <<>>
    ELSE (IF shouldBlur(Head(words).text, opts) THEN <<WordRect(Head(words))>> ELSE <<>>)
         \o WordRects(Tail(words), opts)

\* C. await Tesseract.recognize(img, 'eng'), then words.forEach; a throw is
\* caught and logged.
TextRecognize ==
    /\ ppc = "text"
    /\ options.licensePlate \/ options.sensitiveText
    /\ \/ /\ threw' = threw \cup {"ocr"}
          /\ UNCHANGED writes
       \/ /\ \E words \in {<<>>} \cup { <<w>> : w \in SampleWords } :
                writes' = BlurWrites(writes, WordRects(words, options), "text")
          /\ UNCHANGED threw
    /\ ppc' = "done"
    /\ UNCHANGED <<options, cocoModel, bodyPixModel, cpc, cocoBoxes>>
    /\ UNCHANGED <<dedupVars, scanVars, notPipe>>

\* The widths of the images processImage is called on: one below the tiling
\* limit, one above it.
PipeWidths == {150, 401}

\* loadModels loads the three models in turn and stops at the first failure.
Loaded == { <<FALSE, FALSE, FALSE>>, <<TRUE, FALSE, FALSE>>,
            <<TRUE, TRUE, FALSE>>, <<TRUE, TRUE, TRUE>> }

PipeInit ==
    /\ DedupIdle
    /\ UiIdle
    /\ BlurIdle
    /\ TextIdle
    /\ options \in [faces : BOOLEAN, body : BOOLEAN, licensePlate : BOOLEAN,
                    sensitiveText : BOOLEAN]
    /\ \E l \in Loaded :
          blazeModel = l[1] /\ cocoModel = l[2] /\ bodyPixModel = l[3]
    /\ imgW \in PipeWidths
    /\ imgH = 150
    /\ spc = "idle"
    /\ tileX = 0
    /\ tileY = 0
    /\ turn = 0
    /\ blazeBoxes = <<>>
    /\ scanned = {}
    /\ blazeThrew = FALSE
    /\ ppc = "start"
    /\ cpc = "idle"
    /\ cocoBoxes = <<>>
    /\ threw = {}
    /\ writes = <<>>

PipeNext ==
    \/ ProcStart \/ BodySkip \/ BodySegment \/ FacesSkip \/ FacesStart
    \/ ScanNoModel \/ ScanFull \/ TileSkip \/ TileDetect \/ TileRowEnd \/ TileLoopEnd
    \/ CocoNoModel \/ CocoDetect \/ FacesJoin \/ TextSkip \/ TextRecognize

SpecPipe == PipeInit /\ [][PipeNext]_vars

FromBlaze(s) == { i \in 1..Len(s) : s[i].source \in {"blaze-full", "blaze-tile"} }
FromCoco(s) == { i \in 1..Len(s) : s[i].source = "coco-head" }
WritesOf(stage) == { i \in 1..Len(writes) : writes[i].stage = stage }

\* C7 as stated: a detector whose call threw contributes no region to the
\* de-duplication and the blurring of that processImage call, and every
\* other enabled stage still runs: the call is never stuck before its end.
C7_FailureIsEmpty ==
    /\ (ppc \in {"text", "done"} /\ blazeThrew) => FromBlaze(boxes) = {}
    /\ (ppc \in {"text", "done"} /\ "coco" \in threw) => FromCoco(boxes) = {}
    /\ "bodyPix" \in threw => WritesOf("body") = {}
    /\ "ocr" \in threw => WritesOf("text") = {}
    /\ ppc # "done" => ENABLED PipeNext

\* The place of a stage in processImage
Rank(stage) ==
    CASE stage = "draw" -> 0
      [] stage = "body" -> 1
      [] stage = "faces" -> 2
      [] stage = "text" -> 3

\* The stage processImage is in, or has yet to reach, at each of its points
Reached ==
    CASE ppc \in {"idle", "start"} -> 0
      [] ppc = "body" -> 1
      [] ppc \in {"faces", "join"} -> 2
      [] ppc = "text" -> 3
      [] ppc = "done" -> 4

\* C12: the writes to the canvas come in the order body, faces, text; all
\* writes of a stage are made before processImage goes on to the next one;
\* and every blur of the face and text stages is taken from the canvas as all
\* the writes before it left it.
C12_StageOrder ==
    /\ \A i, j \in 1..Len(writes) :
          i < j => Rank(writes[i].stage) <= Rank(writes[j].stage)
    /\ \A k \in 1..Len(writes) :
          /\ Rank(writes[k].stage) <= Reached
          /\ writes[k].stage \in {"faces", "text"} => writes[k].read = k - 1

\* A finished call in which the body stage, two face blurs and a text blur
\* have written the canvas.
C12_Witness ==
    /\ ppc = "done"
    /\ WritesOf("body") # {}
    /\ Cardinality(WritesOf("faces")) >= 2
    /\ WritesOf("text") # {}

\* The face stage has not consumed anything yet.
NothingConsumed == boxes = <<>> /\ keep = <<>> /\ WritesOf("faces") = {}

\* C13: both detectors are started before either result is consumed, and
\* deduplicateBoxes and the face blurs run only once both have returned, on
\* the concatenation of the two lists they returned, whatever the order of
\* the detectors' steps.
C13_Join ==
    /\ Reached < 2 => spc = "idle" /\ cpc = "idle"
    /\ ppc = "faces" => spc = "idle" /\ cpc = "idle" /\ NothingConsumed
    /\ ppc = "join" => spc # "idle" /\ cpc # "idle" /\ NothingConsumed
    /\ ~NothingConsumed =>
          /\ spc = "done" /\ cpc = "done"
          /\ boxes = blazeBoxes \o cocoBoxes
          /\ keep = deduplicateBoxes(blazeBoxes \o cocoBoxes, IouThreshNum, IouThreshDen)
          /\ Cardinality(WritesOf("faces")) = Len(keep)

\* A finished call in which both detectors returned a box, neither threw,
\* and both boxes were blurred.
C13_Witness ==
    /\ ppc = "done"
    /\ ~blazeThrew /\ "coco" \notin threw
    /\ FromBlaze(boxes) # {} /\ FromCoco(boxes) # {}
    /\ Cardinality(WritesOf("faces")) = 2

-----------------------------------------------------------------------------
(* The page: onDrop and img.onload, handleProcess and its timer,           *)
(* handleReset, handleDownload, toggleOption.  A processImage call is      *)
(* followed from await to await; between two awaits it runs without        *)
(* interruption, and while it awaits a collaborator any handler can run.   *)
(* No handler tests isProcessing: the overlay rendered while it is true is *)
(* markup, the buttons stay mounted with their onClick.                    *)

MaxDrops == 2           \* files dropped before the first of them has loaded
MaxClicks == 2          \* activations of Apply Blur
MaxSaves == 1           \* activations of Save

Stages == <<"body", "faces", "text">>

\* Whether processImage, called with these options, awaits at this stage.
Awaits(opts, stage) ==
    CASE stage = "body" -> opts.body /\ bodyPixModel
      [] stage = "faces" -> opts.faces
      [] stage = "text" -> opts.licensePlate \/ opts.sensitiveText

\* The first stage after position k of Stages at which the call awaits, 0
\* when it runs to its end.
RECURSIVE NextAwait(_, _)
NextAwait(opts, k) ==
    IF k >= Len(Stages) THEN 0
    ELSE IF Awaits(opts, Stages[k + 1]) THEN k + 1
    ELSE NextAwait(opts, k + 1)

RemoveAt(seq, i) == SubSeq(seq, 1, i - 1) \o SubSeq(seq, i + 1, Len(seq))

\* onDrop: a file is accepted and its image starts to load.  The dropzone is
\* rendered only while originalImage is null.
OnDrop ==
    /\ originalImage = 0
    /\ dropped < MaxDrops
    /\ dropped' = dropped + 1
    /\ pendingLoads' = pendingLoads \cup {dropped + 1}
    /\ UNCHANGED <<originalImage, isProcessing, timers, clicks, runs, canvas, downloads>>
    /\ UNCHANGED <<dedupVars, scanVars, pipeVars, blurVars, textVars>>

\* img.onload: setOriginalImage(img), and when the canvas is mounted, size it
\* and draw the image.  The canvas is mounted once originalImage is set.
ImgOnload ==
    /\ \E id \in pendingLoads :
          /\ pendingLoads' = pendingLoads \ {id}
          /\ originalImage' = id
          /\ canvas' = IF originalImage # 0
                       THEN [image |-> id, stages |-> {}]
                       ELSE canvas
    /\ UNCHANGED <<dropped, isProcessing, timers, clicks, runs, downloads>>
    /\ UNCHANGED <<dedupVars, scanVars, pipeVars, blurVars, textVars>>

\* handleProcess: if (!originalImage || !canvasRef.current) return;
MayProcess == originalImage # 0

\* handleProcess: setIsProcessing(true), setTimeout(..., 100).  The callback
\* closes over the originalImage and options of this render.
HandleProcess ==
    /\ MayProcess
    /\ clicks < MaxClicks
    /\ clicks' = clicks + 1
    /\ isProcessing' = TRUE
    /\ timers' = Append(timers, [image |-> originalImage, opts |-> options])
    /\ UNCHANGED <<originalImage, pendingLoads, dropped, runs, canvas, downloads>>
    /\ UNCHANGED <<dedupVars, scanVars, pipeVars, blurVars, textVars>>

\* The timer callback: processImage is called; it sizes the canvas, draws the
\* image and runs to its first await, or to its end when no stage awaits,
\* and then setIsProcessing(false).
TimerFire ==
    /\ timers # <<>>
    /\ LET t == Head(timers)
           at == NextAwait(t.opts, 0)
       IN  /\ timers' = Tail(timers)
           /\ canvas' = [image |-> t.image, stages |-> {}]
           /\ IF at = 0
              THEN isProcessing' = FALSE /\ UNCHANGED runs
              ELSE runs' = Append(runs, [image |-> t.image, opts |-> t.opts, at |-> at])
                   /\ UNCHANGED isProcessing
    /\ UNCHANGED <<originalImage, pendingLoads, dropped, clicks, downloads>>
    /\ UNCHANGED <<dedupVars, scanVars, pipeVars, blurVars, textVars>>

\* The collaborator a processImage call awaits settles: the stage blurs the
\* canvas (or finds nothing, or its call threw), and the call runs on to its
\* next await or to its end, where the timer callback sets isProcessing false.
RunResume ==
    /\ \E i \in 1..Len(runs), blurs \in BOOLEAN :
          LET r == runs[i]
              at == NextAwait(r.opts, r.at)
          IN  /\ canvas' = IF blurs
                           THEN [canvas EXCEPT !.stages = @ \cup {Stages[r.at]}]
                           ELSE canvas
              /\ IF at = 0
                 THEN runs' = RemoveAt(runs, i) /\ isProcessing' = FALSE
                 ELSE runs' = [runs EXCEPT ![i].at = at] /\ UNCHANGED isProcessing
    /\ UNCHANGED <<originalImage, pendingLoads, dropped, timers, clicks, downloads>>
    /\ UNCHANGED <<dedupVars, scanVars, pipeVars, blurVars, textVars>>

\* handleReset: draw originalImage over the canvas.
HandleReset ==
    /\ originalImage # 0
    /\ canvas' = [image |-> originalImage, stages |-> {}]
    /\ UNCHANGED <<originalImage, pendingLoads, dropped, isProcessing, timers, clicks,
                   runs, downloads>>
    /\ UNCHANGED <<dedupVars, scanVars, pipeVars, blurVars, textVars>>

\* handleDownload: canvasRef.current.toDataURL() is read and saved.
HandleDownload ==
    /\ originalImage # 0
    /\ Len(downloads) < MaxSaves
    /\ downloads' = Append(downloads, canvas)
    /\ UNCHANGED <<originalImage, pendingLoads, dropped, isProcessing, timers, clicks,
                   runs, canvas>>
    /\ UNCHANGED <<dedupVars, scanVars, pipeVars, blurVars, textVars>>

\* toggleOption(key); the controls are rendered once an image is loaded.
ToggleOption ==
    /\ originalImage # 0
    /\ \E key \in {"faces", "body", "licensePlate", "sensitiveText"} :
          options' = [options EXCEPT ![key] = ~@]
    /\ UNCHANGED <<cocoModel, bodyPixModel, ppc, cpc, cocoBoxes, threw, writes>>
    /\ UNCHANGED <<dedupVars, scanVars, uiVars, blurVars, textVars>>

UiInit ==
    /\ DedupIdle
    /\ ScanIdle
    /\ PipeIdle
    /\ UiIdle
    /\ BlurIdle
    /\ TextIdle

UiNext ==
    \/ OnDrop \/ ImgOnload \/ HandleProcess \/ TimerFire \/ RunResume
    \/ HandleReset \/ HandleDownload \/ ToggleOption

SpecUi == UiInit /\ [][UiNext]_vars

\* C8 as stated: while a processImage call is in flight no second call
\* starts, nothing but that call writes the canvas, and nothing reads it out.
C8_ExclusiveCanvas ==
    [][runs # <<>> =>
          /\ Len(runs') <= 1
          /\ canvas' # canvas => runs' # runs
          /\ downloads' = downloads]_vars

-----------------------------------------------------------------------------
(* applyBlurToRect on the pixels of a small canvas, and the box-based      *)
(* stages of processImage on it (options.body false).  Rectangles are in   *)
(* fifths of a pixel; pixel (i, j) is the square [5i, 5i+5] x [5j, 5j+5].  *)
(* The Gaussian of ctx.filter is modelled by the mean over the pixels      *)
(* within BlurReach; where the kernel leaves the canvas the blurred copy   *)
(* is transparent and the pixel underneath shows through.  A pixel the     *)
(* clip covers in part is mixed in proportion to the covered area.         *)

MaxBlurs == 1           \* turns of uniqueBoxes.forEach
BlurReach == 1          \* how far the blur kernel reaches, in pixels

\* The canvas leaves room around the boxes for their padding.
CanvasSide == MaxCoord + 2

Pixels == (0..(CanvasSide - 1)) \X (0..(CanvasSide - 1))

\* ctx.drawImage(img, 0, 0): the pixels of the image
OriginalPixels == [p \in Pixels |-> 10 * (p[1] + CanvasSide * p[2])]

\* The area a rectangle covers of a pixel, in 25ths of the pixel.  ctx.rect
\* with a negative width or height spans the same points as the rectangle
\* mirrored, and with a zero one spans no area.
Cover(rect, p) ==
    LET x1 == Min(rect.x, rect.x + rect.width)
        x2 == Max(rect.x, rect.x + rect.width)
        y1 == Min(rect.y, rect.y + rect.height)
        y2 == Max(rect.y, rect.y + rect.height)
        ox == Min(x2, PadDen * p[1] + PadDen) - Max(x1, PadDen * p[1])
        oy == Min(y2, PadDen * p[2] + PadDen) - Max(y1, PadDen * p[2])
    IN  Max(0, ox) * Max(0, oy)

\* The sum of c over the pixels of row y from column x1 to column x2
RECURSIVE RowSum(_, _, _, _)
RowSum(c, y, x1, x2) ==
    IF x1 > x2 THEN 0 ELSE c[<<x1, y>>] + RowSum(c, y, x1 + 1, x2)

\* The sum of c over the pixels of the rows y1..y2 and the columns x1..x2
RECURSIVE BlockSum(_, _, _, _, _)
BlockSum(c, x1, x2, y1, y2) ==
    IF y1 > y2 THEN 0 ELSE RowSum(c, y1, x1, x2) + BlockSum(c, x1, x2, y1 + 1, y2)

\* ctx.filter = blur(...); ctx.drawImage(canvas, 0, 0): the value the blurred
\* copy of the current canvas leaves on pixel p, drawn unclipped.
Blurred(c, p) ==
    LET x1 == Max(0, p[1] - BlurReach)
        x2 == Min(CanvasSide - 1, p[1] + BlurReach)
        y1 == Max(0, p[2] - BlurReach)
        y2 == Min(CanvasSide - 1, p[2] + BlurReach)
        kernel == (2 * BlurReach + 1) * (2 * BlurReach + 1)
        inside == (x2 - x1 + 1) * (y2 - y1 + 1)
    IN  (BlockSum(c, x1, x2, y1, y2) + (kernel - inside) * c[p]) \div kernel

\* The pixel after the clipped draw.
Clipped(c, rect, p) ==
    LET a == Cover(rect, p)
    IN  (a * Blurred(c, p) + (PadDen * PadDen - a) * c[p]) \div (PadDen * PadDen)

\* A mutant of applyBlurToRect: the test of w and h is missing.
applyBlurToRectNoGuard(c, rect) == [p \in Pixels |-> Clipped(c, rect, p)]

\* A mutant of applyBlurToRect: ctx.clip() is missing.
applyBlurToRectNoClip(c, rect) ==
    IF rect.width <= 0 \/ rect.height <= 0 THEN c
    ELSE [p \in Pixels |-> Blurred(c, p)]

\* applyBlurToRect(x, y, w, h) on canvas content c
applyBlurToRect(c, rect) ==
    IF rect.width <= 0 \/ rect.height <= 0 THEN c
    ELSE [p \in Pixels |-> Clipped(c, rect, p)]

\* The word boxes Tesseract can report on the small image: a proper box, a
\* box of no width, and boxes whose corners are swapped.
WordBoxes ==
    { [x0 |-> 1, y0 |-> 3, x1 |-> 3, y1 |-> 4],
      [x0 |-> 2, y0 |-> 0, x1 |-> 2, y1 |-> 1],
      [x0 |-> 3, y0 |-> 0, x1 |-> 1, y1 |-> 2],
      [x0 |-> 4, y0 |-> 4, x1 |-> 3, y1 |-> 3] }

\* processImage on the small image, body off: the canvas holds the image.
BlurInit ==
    /\ DedupIdle
    /\ ScanIdle
    /\ UiIdle
    /\ TextIdle
    /\ \E lp, st \in BOOLEAN :
          /\ lp \/ st
          /\ options = [faces |-> TRUE, body |-> FALSE, licensePlate |-> lp,
                        sensitiveText |-> st]
    /\ cocoModel = TRUE
    /\ bodyPixModel = TRUE
    /\ ppc = "idle"
    /\ cpc = "idle"
    /\ cocoBoxes = <<>>
    /\ threw = {}
    /\ writes = <<>>
    /\ pix = OriginalPixels
    /\ calls = <<>>
    /\ bpc = "faces"

CallsOf(stage) == { i \in 1..Len(calls) : calls[i].stage = stage }

\* One turn of uniqueBoxes.forEach: the box is padded and blurred.  The boxes
\* range over all boxes, which include all the de-duplicator can return.
FaceBlur ==
    /\ bpc = "faces"
    /\ Cardinality(CallsOf("faces")) < MaxBlurs
    /\ \E g \in Geometry :
          /\ pix' = applyBlurToRect(pix, FaceRect(g))
          /\ calls' = Append(calls, [stage |-> "faces", rect |-> FaceRect(g)])
    /\ UNCHANGED bpc
    /\ UNCHANGED <<dedupVars, scanVars, pipeVars, uiVars, textVars>>

\* uniqueBoxes.forEach ends; Tesseract.recognize resolves.
FaceBlurEnd ==
    /\ bpc = "faces"
    /\ bpc' = "text"
    /\ UNCHANGED <<pix, calls>>
    /\ UNCHANGED <<dedupVars, scanVars, pipeVars, uiVars, textVars>>

\* One turn of words.forEach on a word that is to be blurred; Tesseract
\* reports one word at most on the small image.
WordBlur ==
    /\ bpc = "text"
    /\ CallsOf("text") = {}
    /\ \E t \in SampleTexts, b \in WordBoxes :
          LET word == [text |-> t, bbox |-> b]
          IN  /\ shouldBlur(word.text, options)
              /\ pix' = applyBlurToRect(pix, WordRect(word))
              /\ calls' = Append(calls, [stage |-> "text", rect |-> WordRect(word)])
    /\ UNCHANGED bpc
    /\ UNCHANGED <<dedupVars, scanVars, pipeVars, uiVars, textVars>>

\* words.forEach ends and processImage returns.
WordBlurEnd ==
    /\ bpc = "text"
    /\ bpc' = "done"
    /\ UNCHANGED <<pix, calls>>
    /\ UNCHANGED <<dedupVars, scanVars, pipeVars, uiVars, textVars>>

BlurNext == FaceBlur \/ FaceBlurEnd \/ WordBlur \/ WordBlurEnd

SpecBlur == BlurInit /\ [][BlurNext]_vars

NoOp(rect) == rect.width <= 0 \/ rect.height <= 0

\* C9: a call of applyBlurToRect with w <= 0 or h <= 0 leaves every pixel of
\* the canvas as it was.
C9_BlurNoOp ==
    [][(Len(calls') > Len(calls) /\ NoOp(calls'[Len(calls')].rect)) => pix' = pix]_vars

\* applyBlurToRect was called with a negative width on a canvas that an
\* earlier call had blurred.
C9_Witness ==
    /\ Len(calls) >= 2
    /\ calls[Len(calls)].rect.width < 0
    /\ calls[Len(calls)].rect.height > 0
    /\ pix # OriginalPixels

\* The area of pixel p within the rectangle as given, none when the
\* rectangle has no positive width and height.
Within(rect, p) == IF NoOp(rect) THEN 0 ELSE Cover(rect, p)

Untouched == { p \in Pixels : \A i \in 1..Len(calls) : Within(calls[i].rect, p) = 0 }

\* C10: with the body stage off, every pixel outside all the rectangles
\* passed to applyBlurToRect holds the value of the original image.
C10_OutsideUnchanged == bpc # "idle" => \A p \in Untouched : pix[p] = OriginalPixels[p]

\* A face blur and a word blur have both changed pixels, and a pixel lies
\* outside both rectangles.
C10_Witness ==
    /\ bpc = "done"
    /\ CallsOf("faces") # {} /\ CallsOf("text") # {}
    /\ Untouched # {}
    /\ \E i \in CallsOf("faces"), j \in CallsOf("text"), p, q \in Pixels :
          /\ Within(calls[i].rect, p) > 0 /\ Within(calls[j].rect, p) = 0
          /\ pix[p] # OriginalPixels[p]
          /\ Within(calls[j].rect, q) > 0 /\ Within(calls[i].rect, q) = 0
          /\ pix[q] # OriginalPixels[q]

====
